---- MODULE Spec2Model ----
(***************************************************************************)
(* Model of the batch pipelines of EndoGPT:                                *)
(*   - ImageAnalyzer.analyze_folder / analyze_local_image (gpt_nose.py)    *)
(*   - TextImprover.process_file / improve_text (text_improver.py)         *)
(*   - the frame loop of process_video (video2frame_fps.py)                *)
(*                                                                         *)
(* Threads are interleaved at the granularity of the statements that read  *)
(* or write shared state (self.last_request_time, the futures, the files). *)
(* Time is kept relative to the last stamp of self.last_request_time and   *)
(* saturates at rate_limit: the code only ever compares the difference     *)
(* "time.time() - self.last_request_time" with rate_limit.  Back-off       *)
(* sleeps (time.sleep(retry_delay), tenacity's wait_exponential, the       *)
(* time.sleep(self.rate_limit) of the except clause) change no state and   *)
(* are modelled as an arbitrary passage of time (Tick).                    *)
(***************************************************************************)
EXTENDS Integers, Sequences, FiniteSets, TLC

\* ---------------------------------------------------------------- bounds
MaxFiles == 2
MaxSampling == 2
Quantum == 3
Extra == 1
MaxChunks == 3
MaxFrames == 3

\* ------------------------------------------------------ program constants
MAX_WORKERS == 4
TextWorkers == 5
RateLimit == 6
TextRateLimit == 3
StopAfterAttempt == 3
max_retries == 3

\* ------------------------------------------------------------ result texts
Payload == "payload"
ErrAnalyzing == "Error analyzing image"
ErrProcessing == "Error processing image after 3 attempts"

Min(a, b) == IF a < b THEN a ELSE b
Max(a, b) == IF a > b THEN a ELSE b

\* every file a run can hold: SpecPool runs MAX_WORKERS + Extra images
Files == 0 .. (Max(MaxFiles, MAX_WORKERS + Extra) - 1)
Chunks == 0 .. (Max(MaxChunks, TextWorkers + Extra) - 1)

VARIABLES
    pc,               \* position of the thread that runs analyze_folder
    err,              \* the error that left analyze_folder ("none" if none)
    folder_exists,    \* os.path.exists(folder_path)
    nfiles,           \* supported image files in the folder, sorted
    sampling,         \* the sampling argument
    save_results,     \* the save_results argument
    status,           \* per image: where its future / its processing stands
    attempt,          \* per image: loop variable of process_single_image
    tries,            \* per image: tenacity's attempt number
    lpc,              \* per image: position inside analyze_local_image
    rem,              \* per image: remaining rate-limit sleep
    calls,            \* per image: external calls started so far
    errs,             \* per image: external calls that raised so far
    fut,              \* per image: outcome of process_single_image
    results,          \* the in-memory result mapping
    file,             \* content of output_file (the public snapshot)
    tmp,              \* content of output_file + '.tmp'
    time_since_last,  \* time.time() - self.last_request_time, saturated
    gap,              \* time between the two most recent stamps, saturated
    final_data,       \* local of the final-statistics block
    failed_images,    \* images the post-pass retries
    swallowed,        \* an error was caught by the post-pass except
    tpc,              \* position of the thread that runs process_file
    nchunks,          \* len(chunks)
    cstatus,          \* per chunk: where its future stands
    ctries,           \* per chunk: tenacity's attempt number in improve_text
    cfut,             \* per chunk: outcome of improve_text
    improved_chunks,  \* the (chunk_index, improved_chunk) pairs collected
    completed,        \* chunk indices in the order as_completed yielded them
    improved_text,    \* the chunks written to output_file, in order
    text_since_last,  \* time since the last external call of improve_text
                      \* started, saturated
    vpc,              \* position of the thread that runs process_video
    frame_count,      \* cap.get(cv2.CAP_PROP_FRAME_COUNT)
    target_frame_count, \* frames to extract, after the maxframes cap
    maxframes,        \* args.maxframes (0: None)
    readable,         \* frames the decoder can deliver from the stream
    cap_pos,          \* index of the frame the next cap.read() decodes
    frame_id,         \* index of the frame being extracted
    output_frame_count  \* frames written so far

vars == << pc, err, folder_exists, nfiles, sampling, save_results, status,
           attempt, tries, lpc, rem, calls, errs, fut, results,
           file, tmp, time_since_last, gap, final_data, failed_images,
           swallowed, tpc, nchunks, cstatus, ctries, cfut, improved_chunks,
           completed, improved_text, text_since_last,
           vpc, frame_count, target_frame_count, maxframes, readable, cap_pos,
           frame_id, output_frame_count >>

videoVars == << vpc, frame_count, target_frame_count, maxframes, readable, cap_pos,
               frame_id, output_frame_count >>

textVars == << tpc, nchunks, cstatus, ctries, cfut, improved_chunks, completed,
              improved_text, text_since_last >>

\* ------------------------------------------------------------- file contents
Absent == [state |-> "absent", total_images |-> 0, results |-> << >>, final |-> FALSE]
Partial == [state |-> "partial", total_images |-> 0, results |-> << >>, final |-> FALSE]
Snapshot(n, res, fin) ==
    [state |-> "complete", total_images |-> n, results |-> res, final |-> fin]

\* image_files = sorted(listing)[::sampling]
Sample(n, s) == { k \in 0 .. (n - 1) : k % s = 0 }
image_files == Sample(nfiles, sampling)

\* mutant: the directory of the path is taken for the key, the same for
\* every image of the folder
Dirname(i) == 0

\* os.path.basename(image_path): unique within one folder
Basename(i) == i

\* mutant: the number of results so far is written as total_images
CurrentDataCountsResults(n, res) ==
    [state |-> "complete", total_images |-> Cardinality(DOMAIN res),
     results |-> res, final |-> FALSE]

InitialSummary(n) == Snapshot(n, << >>, FALSE)
CurrentData(n, res) == Snapshot(n, res, FALSE)
FinalData(old) == [old EXCEPT !.final = TRUE]

NoResult == [exc |-> FALSE, value |-> "none"]

NoChunk == [exc |-> FALSE, value |-> -1]

\* ImageAnalyzer.__init__ (last_request_time = 0, so the first rate check
\* finds more than rate_limit elapsed) and the locals of analyze_folder
ImageStart ==
    /\ err = "none"
    /\ status = [i \in Files |-> "new"]
    /\ attempt = [i \in Files |-> 0]
    /\ tries = [i \in Files |-> 1]
    /\ lpc = [i \in Files |-> "idle"]
    /\ rem = [i \in Files |-> 0]
    /\ calls = [i \in Files |-> 0]
    /\ errs = [i \in Files |-> 0]
    /\ fut = [i \in Files |-> NoResult]
    /\ results = << >>
    /\ file = Absent
    /\ tmp = Absent
    /\ time_since_last = RateLimit
    /\ gap = RateLimit
    /\ final_data = Absent
    /\ failed_images = {}
    /\ swallowed = FALSE

\* the locals of process_file
TextStart ==
    /\ cstatus = [c \in Chunks |-> "new"]
    /\ ctries = [c \in Chunks |-> 1]
    /\ cfut = [c \in Chunks |-> NoChunk]
    /\ improved_chunks = << >>
    /\ completed = << >>
    /\ improved_text = << >>
    /\ text_since_last = TextRateLimit

\* lines 76-77: the locals of the frame loop; a freshly opened capture is
\* positioned on frame 0
VideoStart ==
    /\ cap_pos = 0
    /\ frame_id = 0
    /\ output_frame_count = 0

\* video2frame_fps.py is not the script being run
VideoIdle ==
    /\ vpc = "off"
    /\ frame_count = 0
    /\ target_frame_count = 0
    /\ maxframes = 0
    /\ readable = 0
    /\ VideoStart

\* text_improver.py is not the script being run
TextIdle ==
    /\ tpc = "off"
    /\ nchunks = 0
    /\ TextStart

\* gpt_nose.py is not the script being run
ImageIdle ==
    /\ pc = "off"
    /\ folder_exists = FALSE
    /\ nfiles = 0
    /\ sampling = 1
    /\ save_results = FALSE
    /\ ImageStart

\* a run of gpt_nose.py on a folder
Init ==
    /\ TextIdle
    /\ VideoIdle
    /\ pc = "start"
    /\ folder_exists \in BOOLEAN
    /\ nfiles \in 0 .. MaxFiles
    /\ (~folder_exists => nfiles = 0)
    /\ sampling \in 1 .. MaxSampling
    /\ save_results \in BOOLEAN
    /\ ImageStart

\* a run of text_improver.py on a file
InitText ==
    /\ ImageIdle
    /\ VideoIdle
    /\ tpc = "start"
    /\ nchunks \in 0 .. MaxChunks
    /\ TextStart

\* a run of either script with more work items than pool workers
InitPool ==
    \/ /\ TextIdle
       /\ VideoIdle
       /\ pc = "start"
       /\ folder_exists = TRUE
       /\ nfiles = MAX_WORKERS + Extra
       /\ sampling = 1
       /\ save_results \in BOOLEAN
       /\ ImageStart
    \/ /\ ImageIdle
       /\ VideoIdle
       /\ tpc = "start"
       /\ nchunks = TextWorkers + Extra
       /\ TextStart

itemVars == << status, attempt, tries, lpc, rem, calls, errs, fut >>
clockVars == << time_since_last, gap >>
inputVars == << folder_exists, nfiles, sampling, save_results >>
diskVars == << file, tmp >>
postVars == << final_data, failed_images, swallowed >>

\* mutant: the header is not written before the pool starts
ListFolderSkipsHeader ==
    /\ pc = "start"
    /\ IF ~folder_exists \/ image_files = {}
         THEN pc' = "raised" /\ err' = "ValueError"
         ELSE pc' = "submit" /\ UNCHANGED err
    /\ UNCHANGED << videoVars, textVars, inputVars, itemVars, results, diskVars, clockVars, postVars >>

\* mutant: the check for an empty image list is missing
ListFolderNoEmptyCheck ==
    /\ pc = "start"
    /\ IF ~folder_exists
         THEN pc' = "raised" /\ err' = "ValueError"
         ELSE pc' = "open_out" /\ UNCHANGED err
    /\ UNCHANGED << videoVars, textVars, inputVars, itemVars, results, diskVars, clockVars, postVars >>

\* ------------------------------------------------- analyze_folder: set-up
\* lines 119-144: the folder check, the listing, the sampling, the empty check
ListFolder ==
    /\ pc = "start"
    /\ IF ~folder_exists \/ image_files = {}
         THEN pc' = "raised" /\ err' = "ValueError"
         ELSE pc' = "open_out" /\ UNCHANGED err
    /\ UNCHANGED << videoVars, textVars, inputVars, itemVars, results, diskVars, clockVars, postVars >>

\* line 162: open(output_file, 'w') creates or truncates the public file
InitialOpen ==
    /\ pc = "open_out"
    /\ file' = Partial
    /\ pc' = "dump_out"
    /\ UNCHANGED << videoVars, textVars, err, inputVars, itemVars, results, tmp, clockVars, postVars >>

InitialOpenFails ==
    /\ pc = "open_out"
    /\ pc' = "raised"
    /\ err' = "OSError"
    /\ UNCHANGED << videoVars, textVars, inputVars, itemVars, results, diskVars, clockVars, postVars >>

\* line 163: json.dump(initial_summary, f) and the close of the with block
InitialDump ==
    /\ pc = "dump_out"
    /\ file' = InitialSummary(Cardinality(image_files))
    /\ pc' = "submit"
    /\ UNCHANGED << videoVars, textVars, err, inputVars, itemVars, results, tmp, clockVars, postVars >>

\* lines 186-190: every image is submitted to the executor
Submit ==
    /\ pc = "submit"
    /\ status' = [i \in Files |-> IF i \in image_files THEN "queued" ELSE status[i]]
    /\ pc' = "as_completed"
    /\ UNCHANGED << videoVars, textVars, err, inputVars, attempt, tries, lpc, rem, calls, errs, fut,
                    results, diskVars, clockVars, postVars >>

\* ------------------------------------------------- the executor's workers
Running == { i \in Files : status[i] = "running" }
Queued == { i \in Files : status[i] = "queued" }

\* mutant: a thread per work item
WorkerIdleUnbounded(busy) == TRUE

\* ThreadPoolExecutor(max_workers=MAX_WORKERS): a work item starts only on an
\* idle worker thread
WorkerIdle(busy) == Cardinality(busy) < MAX_WORKERS

\* a worker takes the oldest queued work item and enters process_single_image
\* (line 174, attempt 0) and analyze_local_image (first tenacity attempt)
PoolStart(i) ==
    /\ pc \in {"as_completed", "write_tmp", "replace", "shutdown"}
    /\ status[i] = "queued"
    /\ \A j \in Queued : i <= j
    /\ WorkerIdle(Running)
    /\ status' = [status EXCEPT ![i] = "running"]
    /\ attempt' = [attempt EXCEPT ![i] = 0]
    /\ tries' = [tries EXCEPT ![i] = 1]
    /\ lpc' = [lpc EXCEPT ![i] = "check"]
    /\ UNCHANGED << videoVars, textVars, pc, err, inputVars, rem, calls, errs, fut, results, diskVars,
                    clockVars, postVars >>

\* --------------------------------------------------- analyze_local_image
\* mutant: the rate check never sleeps
SleepForNothing(since) == 0

\* lines 45-48: the sleep that the rate check asks for
SleepFor(since) == IF since < RateLimit THEN RateLimit - since ELSE 0

\* lines 45-48: read the clock and self.last_request_time, decide the sleep
RateCheck(i) ==
    /\ lpc[i] = "check"
    /\ rem' = [rem EXCEPT ![i] = SleepFor(time_since_last)]
    /\ lpc' = [lpc EXCEPT ![i] = "wait"]
    /\ UNCHANGED << videoVars, textVars, pc, err, inputVars, status, attempt, tries, calls, errs, fut,
                    results, diskVars, clockVars, postVars >>

\* line 50 and lines 53-83: once the sleep is over, stamp
\* self.last_request_time and issue the external call
StartCall(i) ==
    /\ lpc[i] = "wait"
    /\ rem[i] = 0
    /\ gap' = time_since_last
    /\ time_since_last' = 0
    /\ calls' = [calls EXCEPT ![i] = @ + 1]
    /\ lpc' = [lpc EXCEPT ![i] = "calling"]
    /\ UNCHANGED << videoVars, textVars, pc, err, inputVars, status, attempt, tries, rem, errs, fut,
                    results, diskVars, postVars >>

\* lines 86-91: the except clause re-raises only an error whose text
\* contains "rate_limit"; any other error becomes the returned text
AnalyzeExcept(o) == IF o = "rate_limit" THEN "raise" ELSE "return"

\* mutant: one attempt more than stop_after_attempt allows
RetryStopsLate(t) == t >= StopAfterAttempt + 1

\* lines 36-40: stop_after_attempt(3), reraise=True
RetryStops(t) == t >= StopAfterAttempt

\* mutant: the last attempt lets the exception go
LoopExceptReraise(a) == IF a < max_retries - 1 THEN "continue" ELSE "raise"

\* lines 178-182: the except clause of process_single_image
LoopExcept(a) == IF a < max_retries - 1 THEN "continue" ELSE "return"

\* what follows the end of one external call made on loop attempt a, tenacity
\* attempt t, with outcome o: another call ("again") or the end of
\* process_single_image ("return" / "raise")
AfterCall(a, t, o) ==
    IF o = "ok"
      THEN [kind |-> "return", attempt |-> a, tries |-> t, value |-> Payload]
    ELSE IF AnalyzeExcept(o) = "return"
      THEN [kind |-> "return", attempt |-> a, tries |-> t, value |-> ErrAnalyzing]
    ELSE IF ~RetryStops(t)
      THEN [kind |-> "again", attempt |-> a, tries |-> t + 1, value |-> "none"]
    ELSE IF LoopExcept(a) = "continue"
      THEN [kind |-> "again", attempt |-> a + 1, tries |-> 1, value |-> "none"]
    ELSE IF LoopExcept(a) = "return"
      THEN [kind |-> "return", attempt |-> a, tries |-> t, value |-> ErrProcessing]
    ELSE [kind |-> "raise", attempt |-> a, tries |-> t, value |-> "exception"]

\* the external call (or a file read before it) ends with outcome o
CallReturns(i, o) ==
    /\ lpc[i] = "calling"
    /\ LET r == AfterCall(attempt[i], tries[i], o) IN
         /\ errs' = [errs EXCEPT ![i] = IF o = "ok" THEN @ ELSE @ + 1]
         /\ attempt' = [attempt EXCEPT ![i] = r.attempt]
         /\ tries' = [tries EXCEPT ![i] = r.tries]
         /\ IF r.kind = "again"
              THEN /\ lpc' = [lpc EXCEPT ![i] = "check"]
                   /\ UNCHANGED << videoVars, textVars, status, fut >>
              ELSE /\ lpc' = [lpc EXCEPT ![i] = "idle"]
                   /\ fut' = [fut EXCEPT ![i] =
                                [exc |-> r.kind = "raise", value |-> r.value]]
                   /\ status' = [status EXCEPT ![i] =
                                   IF @ = "running" THEN "done" ELSE "retried"]
    /\ UNCHANGED << videoVars, textVars, pc, err, inputVars, rem, calls, results, diskVars, clockVars,
                    postVars >>

\* the clock advances by d seconds
Tick(d) ==
    /\ pc \notin {"returned", "raised"}
    /\ time_since_last < RateLimit \/ \E i \in Files : rem[i] > 0
    /\ time_since_last' = Min(time_since_last + d, RateLimit)
    /\ rem' = [i \in Files |-> Max(rem[i] - d, 0)]
    /\ UNCHANGED << videoVars, textVars, pc, err, inputVars, status, attempt, tries, lpc, calls, errs,
                    fut, results, diskVars, gap, postVars >>

\* --------------------------------------- analyze_folder: the as_completed loop
\* line 196 / line 248: results[image_name] = result
Record(res, i, value) == (Basename(i) :> value) @@ res

\* mutant: a completion is stored by a callback on another thread, also while
\* the main thread is inside a snapshot write
ConsumeAnyTime(i) ==
    /\ pc \in {"as_completed", "write_tmp", "replace"}
    /\ status[i] = "done"
    /\ status' = [status EXCEPT ![i] = "consumed"]
    /\ IF fut[i].exc
         THEN /\ pc' = "shutdown"
              /\ err' = "CallError"
              /\ UNCHANGED results
         ELSE /\ results' = Record(results, i, fut[i].value)
              /\ pc' = IF save_results THEN "write_tmp" ELSE "as_completed"
              /\ UNCHANGED err
    /\ UNCHANGED << videoVars, textVars, inputVars, attempt, tries, lpc, rem, calls, errs, fut,
                    diskVars, clockVars, postVars >>

\* lines 192-199: the next completed future is taken, its result is stored
\* under the image's name; future.result() re-raises what the worker raised
Consume(i) ==
    /\ pc = "as_completed"
    /\ status[i] = "done"
    /\ status' = [status EXCEPT ![i] = "consumed"]
    /\ IF fut[i].exc
         THEN /\ pc' = "shutdown"
              /\ err' = "CallError"
              /\ UNCHANGED results
         ELSE /\ results' = Record(results, i, fut[i].value)
              /\ pc' = IF save_results THEN "write_tmp" ELSE "as_completed"
              /\ UNCHANGED err
    /\ UNCHANGED << videoVars, textVars, inputVars, attempt, tries, lpc, rem, calls, errs, fut,
                    diskVars, clockVars, postVars >>

\* mutant: the snapshot is written over the public file itself
WriteTmpInPlace ==
    /\ pc = "write_tmp"
    /\ file' = Partial
    /\ tmp' = CurrentData(Cardinality(image_files), results)
    /\ pc' = "replace"
    /\ UNCHANGED << videoVars, textVars, err, inputVars, itemVars, results, clockVars, postVars >>

\* lines 200-211: the whole snapshot goes to output_file + '.tmp'
WriteTmp ==
    /\ pc = "write_tmp"
    /\ tmp' = CurrentData(Cardinality(image_files), results)
    /\ pc' = "replace"
    /\ UNCHANGED << videoVars, textVars, err, inputVars, itemVars, results, file, clockVars, postVars >>

\* lines 210-211 fail (disk full, permission): the error leaves the loop
WriteTmpFails ==
    /\ pc = "write_tmp"
    /\ tmp' = Partial
    /\ pc' = "shutdown"
    /\ err' = "OSError"
    /\ UNCHANGED << videoVars, textVars, inputVars, itemVars, results, file, clockVars, postVars >>

\* mutant: the temporary file is never moved onto the public path
ReplaceSkipped ==
    /\ pc = "replace"
    /\ pc' = "as_completed"
    /\ UNCHANGED << videoVars, textVars, err, inputVars, itemVars, results, diskVars, clockVars,
                    postVars >>

\* line 212: os.replace(temp_output_file, output_file)
Replace ==
    /\ pc = "replace"
    /\ file' = tmp
    /\ tmp' = Absent
    /\ pc' = "as_completed"
    /\ UNCHANGED << videoVars, textVars, err, inputVars, itemVars, results, clockVars, postVars >>

ReplaceFails ==
    /\ pc = "replace"
    /\ pc' = "shutdown"
    /\ err' = "OSError"
    /\ UNCHANGED << videoVars, textVars, inputVars, itemVars, results, diskVars, clockVars, postVars >>

\* line 186, leaving the with block on an error: Executor.__exit__ calls
\* shutdown(wait=True), which returns once every submitted item has run
Shutdown ==
    /\ pc = "shutdown"
    /\ \A i \in image_files : status[i] \in {"done", "consumed"}
    /\ pc' = "raised"
    /\ UNCHANGED << videoVars, textVars, err, inputVars, itemVars, results, diskVars, clockVars, postVars >>

\* mutant: the with block is left without waiting for the futures
ExitPoolEarly ==
    /\ pc = "as_completed"
    /\ pc' = "final_stats"
    /\ UNCHANGED << videoVars, textVars, err, inputVars, itemVars, results, diskVars, clockVars, postVars >>

\* line 192: as_completed is exhausted, the with block is left normally
ExitPool ==
    /\ pc = "as_completed"
    /\ \A i \in image_files : status[i] = "consumed"
    /\ pc' = "final_stats"
    /\ UNCHANGED << videoVars, textVars, err, inputVars, itemVars, results, diskVars, clockVars, postVars >>

\* ------------------------------------------ analyze_folder: final statistics
\* lines 219-227: open(output_file, 'r+'), json.load, update, f.seek(0) and
\* the start of json.dump over the old bytes of the public file
FinalStatsBegin ==
    /\ pc = "final_stats"
    /\ final_data' = FinalData(file)
    /\ file' = Partial
    /\ pc' = "final_truncate"
    /\ UNCHANGED << videoVars, textVars, err, inputVars, itemVars, results, tmp, clockVars,
                    failed_images, swallowed >>

FinalStatsFails ==
    /\ pc = "final_stats"
    /\ pc' = "raised"
    /\ err' = "OSError"
    /\ UNCHANGED << videoVars, textVars, inputVars, itemVars, results, diskVars, clockVars, postVars >>

\* lines 227-228: json.dump ends, f.truncate(), the file is closed
FinalStatsEnd ==
    /\ pc = "final_truncate"
    /\ file' = final_data
    /\ pc' = "filter"
    /\ UNCHANGED << videoVars, textVars, err, inputVars, itemVars, results, tmp, clockVars, postVars >>

\* ------------------------------------------------ analyze_folder: post-pass
\* line 240: "Error processing image" in results.get(name, "")
IsFailed(res, i) ==
    /\ Basename(i) \in DOMAIN res
    /\ res[Basename(i)] = ErrProcessing

\* lines 238-241
Filter ==
    /\ pc = "filter"
    /\ failed_images' = { i \in image_files : IsFailed(results, i) }
    /\ pc' = "post"
    /\ UNCHANGED << videoVars, textVars, err, inputVars, itemVars, results, diskVars, clockVars,
                    final_data, swallowed >>

PostTodo == { i \in failed_images : status[i] = "consumed" }

\* lines 245-247: the next failed image, process_single_image on this thread
PostStart(i) ==
    /\ pc = "post"
    /\ i \in PostTodo
    /\ \A j \in PostTodo : i <= j
    /\ status' = [status EXCEPT ![i] = "retrying"]
    /\ attempt' = [attempt EXCEPT ![i] = 0]
    /\ tries' = [tries EXCEPT ![i] = 1]
    /\ lpc' = [lpc EXCEPT ![i] = "check"]
    /\ pc' = "post_run"
    /\ UNCHANGED << videoVars, textVars, err, inputVars, rem, calls, errs, fut, results, diskVars,
                    clockVars, postVars >>

\* lines 247-250 and 262-263: the result is stored; an exception of
\* process_single_image is caught and printed
PostRecord(i) ==
    /\ pc = "post_run"
    /\ status[i] = "retried"
    /\ status' = [status EXCEPT ![i] = "final"]
    /\ IF fut[i].exc
         THEN /\ swallowed' = TRUE
              /\ pc' = "post"
              /\ UNCHANGED results
         ELSE /\ results' = Record(results, i, fut[i].value)
              /\ pc' = IF save_results THEN "post_write_tmp" ELSE "post"
              /\ UNCHANGED swallowed
    /\ UNCHANGED << videoVars, textVars, err, inputVars, attempt, tries, lpc, rem, calls, errs, fut,
                    diskVars, clockVars, final_data, failed_images >>

\* lines 251-260
PostWriteTmp ==
    /\ pc = "post_write_tmp"
    /\ tmp' = CurrentData(Cardinality(image_files), results)
    /\ pc' = "post_replace"
    /\ UNCHANGED << videoVars, textVars, err, inputVars, itemVars, results, file, clockVars, postVars >>

\* lines 259-260 fail; lines 262-263 catch and print the error
PostWriteTmpFails ==
    /\ pc = "post_write_tmp"
    /\ tmp' = Partial
    /\ swallowed' = TRUE
    /\ pc' = "post"
    /\ UNCHANGED << videoVars, textVars, err, inputVars, itemVars, results, file, clockVars,
                    final_data, failed_images >>

\* line 261
PostReplace ==
    /\ pc = "post_replace"
    /\ file' = tmp
    /\ tmp' = Absent
    /\ pc' = "post"
    /\ UNCHANGED << videoVars, textVars, err, inputVars, itemVars, results, clockVars, postVars >>

\* line 261 fails; lines 262-263 catch and print the error
PostReplaceFails ==
    /\ pc = "post_replace"
    /\ swallowed' = TRUE
    /\ pc' = "post"
    /\ UNCHANGED << videoVars, textVars, err, inputVars, itemVars, results, diskVars, clockVars,
                    final_data, failed_images >>

\* line 265
Return ==
    /\ pc = "post"
    /\ PostTodo = {}
    /\ pc' = "returned"
    /\ UNCHANGED << videoVars, textVars, err, inputVars, itemVars, results, diskVars, clockVars, postVars >>

\* ------------------------------------------------------------ specification
Outcomes == {"ok", "rate_limit", "other"}

Next ==
    \/ ListFolder
    \/ InitialOpen
    \/ InitialOpenFails
    \/ InitialDump
    \/ Submit
    \/ \E i \in Files : PoolStart(i)
    \/ \E i \in Files : RateCheck(i)
    \/ \E i \in Files : StartCall(i)
    \/ \E i \in Files : \E o \in Outcomes : CallReturns(i, o)
    \/ Tick(Quantum)
    \/ \E i \in Files : Consume(i)
    \/ WriteTmp
    \/ WriteTmpFails
    \/ Replace
    \/ ReplaceFails
    \/ Shutdown
    \/ ExitPool
    \/ FinalStatsBegin
    \/ FinalStatsFails
    \/ FinalStatsEnd
    \/ Filter
    \/ \E i \in Files : PostStart(i)
    \/ \E i \in Files : PostRecord(i)
    \/ PostWriteTmp
    \/ PostWriteTmpFails
    \/ PostReplace
    \/ PostReplaceFails
    \/ Return

Spec == Init /\ [][Next]_vars

\* every thread that can take a step eventually takes one, every external
\* call ends, every sleep ends
SpecLive == Init /\ [][Next]_vars /\ WF_vars(Next)

\* -------------------------------------------------- TextImprover.process_file
imageVars == << pc, err, inputVars, itemVars, results, diskVars, clockVars, postVars >>

ChunkRunning == { c \in Chunks : cstatus[c] = "running" }
ChunkQueued == { c \in Chunks : cstatus[c] = "queued" }

\* ThreadPoolExecutor(max_workers=5)
TextWorkerIdle(busy) == Cardinality(busy) < TextWorkers

\* lines 94-101: the text is cut into chunks, every chunk is submitted
TSubmit ==
    /\ tpc = "start"
    /\ cstatus' = [c \in Chunks |-> IF c < nchunks THEN "queued" ELSE cstatus[c]]
    /\ tpc' = "as_completed"
    /\ UNCHANGED << videoVars, imageVars, nchunks, ctries, cfut, improved_chunks, completed,
                    improved_text, text_since_last >>

\* a worker takes the oldest queued chunk and calls improve_text, which
\* issues the external call at once (lines 35-70: no read of self.rate_limit
\* or self.last_request_time)
TStart(c) ==
    /\ tpc = "as_completed"
    /\ cstatus[c] = "queued"
    /\ \A d \in ChunkQueued : c <= d
    /\ TextWorkerIdle(ChunkRunning)
    /\ cstatus' = [cstatus EXCEPT ![c] = "running"]
    /\ ctries' = [ctries EXCEPT ![c] = 1]
    /\ text_since_last' = 0
    /\ UNCHANGED << videoVars, imageVars, tpc, nchunks, cfut, improved_chunks, completed,
                    improved_text >>

\* the text the external call returns for chunk c
Improved(c) == c

\* lines 30-34 and 62-72: the external call of improve_text ends with outcome
\* o; tenacity retries any exception until the third attempt (the next call
\* starts), then re-raises
TCallReturns(c, o) ==
    /\ cstatus[c] = "running"
    /\ IF o = "ok"
         THEN /\ cfut' = [cfut EXCEPT ![c] = [exc |-> FALSE, value |-> Improved(c)]]
              /\ cstatus' = [cstatus EXCEPT ![c] = "done"]
              /\ UNCHANGED << ctries, text_since_last >>
         ELSE IF ~RetryStops(ctries[c])
           THEN /\ ctries' = [ctries EXCEPT ![c] = @ + 1]
                /\ text_since_last' = 0
                /\ UNCHANGED << cfut, cstatus >>
           ELSE /\ cfut' = [cfut EXCEPT ![c] = [exc |-> TRUE, value |-> -1]]
                /\ cstatus' = [cstatus EXCEPT ![c] = "done"]
                /\ UNCHANGED << ctries, text_since_last >>
    /\ UNCHANGED << videoVars, imageVars, tpc, nchunks, improved_chunks, completed,
                    improved_text >>

\* lines 105-112: the next completed future; its result is appended with the
\* chunk's index, an exception is printed
TConsume(c) ==
    /\ tpc = "as_completed"
    /\ cstatus[c] = "done"
    /\ cstatus' = [cstatus EXCEPT ![c] = "consumed"]
    /\ improved_chunks' = IF cfut[c].exc
                            THEN improved_chunks
                            ELSE Append(improved_chunks, << c, cfut[c].value >>)
    /\ completed' = Append(completed, c)
    /\ UNCHANGED << videoVars, imageVars, tpc, nchunks, ctries, cfut, improved_text,
                    text_since_last >>

\* the clock advances by d seconds
TTick(d) ==
    /\ tpc = "as_completed"
    /\ text_since_last < TextRateLimit
    /\ text_since_last' = Min(text_since_last + d, TextRateLimit)
    /\ UNCHANGED << videoVars, imageVars, tpc, nchunks, cstatus, ctries, cfut, improved_chunks,
                    completed, improved_text >>

\* line 115: improved_chunks.sort(key=lambda x: x[0]), as an insertion sort
RECURSIVE InsertByIndex(_, _)
InsertByIndex(sorted, x) ==
    IF sorted = << >> THEN << x >>
    ELSE IF x[1] < Head(sorted)[1] THEN << x >> \o sorted
    ELSE << Head(sorted) >> \o InsertByIndex(Tail(sorted), x)

\* mutant: the list is left in completion order
NoSort(seq) == seq

RECURSIVE SortByIndex(_)
SortByIndex(seq) ==
    IF seq = << >> THEN << >>
    ELSE InsertByIndex(SortByIndex(SubSeq(seq, 1, Len(seq) - 1)), seq[Len(seq)])

\* line 116: the texts of the pairs, in the order of the list
Texts(seq) == [k \in 1 .. Len(seq) |-> seq[k][2]]

\* lines 114-120: after the pool, sort, join and write the output file
TWrite ==
    /\ tpc = "as_completed"
    /\ \A c \in Chunks : c < nchunks => cstatus[c] = "consumed"
    /\ improved_chunks' = SortByIndex(improved_chunks)
    /\ improved_text' = Texts(SortByIndex(improved_chunks))
    /\ tpc' = "done"
    /\ UNCHANGED << videoVars, imageVars, nchunks, cstatus, ctries, cfut, completed,
                    text_since_last >>

TextOutcomes == {"ok", "error"}

NextText ==
    \/ TSubmit
    \/ \E c \in Chunks : TStart(c)
    \/ \E c \in Chunks : \E o \in TextOutcomes : TCallReturns(c, o)
    \/ \E c \in Chunks : TConsume(c)
    \/ TTick(Quantum)
    \/ TWrite

SpecText == InitText /\ [][NextText]_vars

\* ------------------------------------------- process_video: the frame loop
\* line 93 / line 115: int(output_frame_count * frame_interval), with
\* frame_interval = frame_count / target_frame_count (line 71)
FrameAt(n) == (n * frame_count) \div target_frame_count

\* a run of video2frame_fps.py on one opened video (lines 41-80): the frame
\* count is the container's figure, the stream may deliver fewer frames;
\* lines 65-66 cap target_frame_count at maxframes
InitVideo ==
    /\ ImageIdle
    /\ TextIdle
    /\ vpc = "while"
    /\ frame_count \in 1 .. MaxFrames
    /\ target_frame_count \in 1 .. MaxFrames
    /\ maxframes \in 0 .. MaxFrames
    /\ (maxframes # 0 => target_frame_count <= maxframes)
    /\ readable \in 0 .. frame_count
    /\ VideoStart

\* line 82: while frame_id < frame_count; lines 122-123 after the loop
VWhile ==
    /\ vpc = "while"
    /\ vpc' = IF frame_id < frame_count THEN "read" ELSE "released"
    /\ UNCHANGED << imageVars, textVars, frame_count, target_frame_count, maxframes,
                    readable, cap_pos, frame_id, output_frame_count >>

\* line 83: cap.read() delivers the frame at the capture's position
VReadOk ==
    /\ vpc = "read"
    /\ cap_pos < readable
    /\ cap_pos' = cap_pos + 1
    /\ vpc' = "imwrite"
    /\ UNCHANGED << imageVars, textVars, frame_count, target_frame_count, maxframes,
                    readable, frame_id, output_frame_count >>

\* lines 83-86: cap.read() returns ret = False; print and continue
VReadFails ==
    /\ vpc = "read"
    /\ cap_pos >= readable
    /\ vpc' = "while"
    /\ UNCHANGED << imageVars, textVars, frame_count, target_frame_count, maxframes,
                    readable, cap_pos, frame_id, output_frame_count >>

\* lines 106 and 111-122: the frame is written, the next frame index is
\* computed, the capture is moved there; break once maxframes are written
VWriteOk ==
    /\ vpc = "imwrite"
    /\ output_frame_count' = output_frame_count + 1
    /\ frame_id' = FrameAt(output_frame_count + 1)
    /\ cap_pos' = FrameAt(output_frame_count + 1)
    /\ vpc' = IF maxframes # 0 /\ output_frame_count + 1 >= maxframes
               THEN "released" ELSE "while"
    /\ UNCHANGED << imageVars, textVars, frame_count, target_frame_count, maxframes,
                    readable >>

\* lines 106-109: cv2.imwrite returns False; print and continue
VWriteFails ==
    /\ vpc = "imwrite"
    /\ vpc' = "while"
    /\ UNCHANGED << imageVars, textVars, frame_count, target_frame_count, maxframes,
                    readable, cap_pos, frame_id, output_frame_count >>

NextVideo ==
    \/ VWhile
    \/ VReadOk
    \/ VReadFails
    \/ VWriteOk
    \/ VWriteFails

\* the thread keeps running: every iteration step that can be taken is taken
SpecVideoLive == InitVideo /\ [][NextVideo]_vars /\ WF_vars(NextVideo)

\* ------------------------------------- runs with more work items than workers
\* every external call succeeds, no disk error, the clock moves in whole
\* rate-limit intervals
NextPool ==
    \/ ListFolder
    \/ InitialOpen
    \/ InitialDump
    \/ Submit
    \/ \E i \in Files : PoolStart(i)
    \/ \E i \in Files : RateCheck(i)
    \/ \E i \in Files : StartCall(i)
    \/ \E i \in Files : CallReturns(i, "ok")
    \/ Tick(RateLimit)
    \/ \E i \in Files : Consume(i)
    \/ WriteTmp
    \/ Replace
    \/ ExitPool
    \/ FinalStatsBegin
    \/ FinalStatsEnd
    \/ Filter
    \/ Return
    \/ TSubmit
    \/ \E c \in Chunks : TStart(c)
    \/ \E c \in Chunks : TCallReturns(c, "ok")
    \/ \E c \in Chunks : TConsume(c)
    \/ TTick(TextRateLimit)
    \/ TWrite

SpecPool == InitPool /\ [][NextPool]_vars

\* ------------------------------------------- runs whose calls do not overlap
\* a folder that yields one image: the pool pass has one busy worker, the
\* post-pass runs on the main thread after it, so all calls of
\* analyze_local_image on the ImageAnalyzer are sequential
InitSeq ==
    /\ TextIdle
    /\ VideoIdle
    /\ pc = "start"
    /\ folder_exists = TRUE
    /\ nfiles \in 1 .. MaxFiles
    /\ sampling \in 1 .. MaxSampling
    /\ Cardinality(Sample(nfiles, sampling)) = 1
    /\ save_results \in BOOLEAN
    /\ ImageStart

SpecSeq == InitSeq /\ [][Next]_vars

\* ------------------------------------------------------------------ claims
PoolPhase(i) == status[i] \in {"running", "done", "consumed"}
Finished(i) == status[i] \in {"done", "consumed"}
IsErrorText(v) == v \in {ErrAnalyzing, ErrProcessing}

\* C1: when analyze_folder returns, the returned mapping has exactly one
\* entry per sampled image, whatever mix of successes and failures occurred.
C1_OneEntryPerImage ==
    pc = "returned" =>
        /\ Cardinality(DOMAIN results) = Cardinality(image_files)
        /\ \A i \in image_files : i \in DOMAIN results

C1_Witness ==
    /\ pc = "returned"
    /\ Cardinality(image_files) = 2
    /\ \E i, j \in image_files : results[i] = Payload /\ IsErrorText(results[j])

\* C2: a failing external call is never raised to the caller of
\* analyze_folder; it ends up as that image's result text, and every image
\* is processed and recorded.
C2_CallErrorsContained ==
    /\ err # "CallError"
    /\ pc = "returned" =>
         \A i \in image_files :
            /\ calls[i] > 0
            /\ i \in DOMAIN results
            /\ (errs[i] = calls[i] => IsErrorText(results[i]))

C2_Witness ==
    /\ pc = "returned"
    /\ \E i, j \in image_files :
          /\ errs[i] = calls[i]
          /\ results[i] = ErrProcessing
          /\ results[j] = Payload

\* C3: the starts of any two external calls (the stamps of
\* self.last_request_time) are at least rate_limit apart, for any number of
\* pool workers.
C3_MinInterval == gap >= RateLimit

\* C4: the public snapshot file changes only by the replace of a fully
\* written temporary file; no write changes it in place.
C4_OnlyReplaced ==
    [][file' # file => (file' = tmp /\ tmp.state = "complete")]_vars

\* C5: the initial snapshot (no results, total_images = number of images) is
\* in the public file before the first image is submitted, and stays there
\* until the first completion is consumed.
C5_HeaderBeforeWork ==
    ((\E i \in Files : status[i] # "new") /\ results = << >>) =>
        file = Snapshot(Cardinality(image_files), << >>, FALSE)

C5_Witness ==
    /\ \E i \in Files : lpc[i] = "calling"
    /\ results = << >>
    /\ file = Snapshot(2, << >>, FALSE)

\* C6: when analyze_folder returns (here: with save_results enabled), the
\* results in the public snapshot file equal the returned mapping.
C6_SnapshotEqualsReturned ==
    (pc = "returned" /\ save_results) =>
        (file.state = "complete" /\ file.results = results)

C8_ThreeCallsThenFailure ==
    \A i \in Files :
        PoolPhase(i) =>
            /\ calls[i] <= 3
            /\ (errs[i] = 3 => (Finished(i) /\ fut[i].value = ErrProcessing))

\* C9: an image is never finished with an error text while fewer than 3 of
\* its external calls have failed: k < 3 failures followed by a success give
\* the payload, for every kind of error.
C9_FewFailuresGivePayload ==
    \A i \in Files :
        (Finished(i) /\ errs[i] < 3) => fut[i].value = Payload

\* C10: every error of the external call is retried: a call that raises is
\* followed by another attempt unless the attempt cap (3) has been reached.
C10_EveryErrorRetried ==
    [][\A i \in Files :
          errs'[i] > errs[i] => (lpc'[i] = "check" \/ calls[i] >= StopAfterAttempt)]_vars

\* C11: every image whose recorded result after the pool pass is a failure
\* text, whichever text, is run again in the post-pass: no image is returned
\* with a failure text without having been retried.
C11_EveryFailureRetried ==
    pc = "returned" =>
        \A i \in image_files : IsErrorText(results[i]) => status[i] = "final"

\* C12: a failed write of the temporary snapshot or a failed replace of the
\* public snapshot always leaves analyze_folder as a raised error: the run
\* never returns normally after one.
C12_DiskErrorsEscape == pc = "returned" => ~swallowed

\* C13: a folder that yields no image after filtering and sampling makes
\* analyze_folder raise before any external call and before any snapshot
\* file is written.
C13_EmptyFolderRaisesFirst ==
    image_files = {} =>
        /\ pc \in {"start", "raised"}
        /\ (pc = "raised" => err = "ValueError")
        /\ file = Absent
        /\ tmp = Absent
        /\ \A i \in Files : calls[i] = 0 /\ status[i] = "new"

C13_Witness ==
    /\ folder_exists
    /\ image_files = {}
    /\ pc = "raised"
    /\ err = "ValueError"

\* C14: the output of process_file holds the improved chunks in increasing
\* chunk index, whatever the order in which the chunks completed.
C14_OutputInChunkOrder ==
    tpc = "done" =>
        /\ Len(improved_text) = Len(improved_chunks)
        /\ \A k \in 1 .. Len(improved_chunks) :
              improved_text[k] = Improved(improved_chunks[k][1])
        /\ \A k \in 1 .. (Len(improved_chunks) - 1) :
              improved_chunks[k][1] < improved_chunks[k + 1][1]

C14_Witness ==
    /\ tpc = "done"
    /\ completed = << 2, 0, 1 >>
    /\ improved_text = << Improved(0), Improved(1), Improved(2) >>

\* C15: process_file collects a result for every chunk, also for a chunk
\* whose improvement failed after all retries: the number of collected
\* results equals the number of chunks.
C15_ResultPerChunk == tpc = "done" => Len(improved_chunks) = nchunks

\* C16: when analyze_folder returns, the public snapshot is the final write:
\* it holds total_time_seconds, avg_time_per_image_seconds and timestamp_end,
\* whether or not the post-pass retried an image.
C16_FinalStatsAtReturn ==
    pc = "returned" => (file.state = "complete" /\ file.final)

\* C17: in the post-pass an image gets exactly one external call: every call
\* started there is the first attempt of its process_single_image run.
C17_PostPassSingleCall ==
    [][\A i \in Files :
          (status[i] = "retrying" /\ calls'[i] > calls[i]) =>
              (attempt[i] = 0 /\ tries[i] = 1)]_vars

\* C18: once a snapshot write has failed in the as_completed loop, no image
\* that had not started yet is started.
C18_AbortStopsPool ==
    [][pc = "shutdown" =>
          \A i \in Files : ~(status[i] = "queued" /\ status'[i] = "running")]_vars

\* the last fully written content of the public file: while lines 226-228
\* rewrite the file in place, that is what final_data was loaded from
LastWritten == IF pc = "final_truncate" THEN final_data ELSE file

\* C19: with save_results, between two consumed completions the results in
\* the public snapshot equal the in-memory mapping, which holds exactly the
\* images consumed so far; a fully written public snapshot never has fewer
\* keys than the one before it.
C19_SnapshotTracksResults ==
    /\ []((pc = "as_completed" /\ save_results) =>
            /\ file.state = "complete"
            /\ file.results = results
            /\ DOMAIN results = { i \in image_files : status[i] = "consumed" })
    /\ [][(save_results /\ file'.state = "complete") =>
            DOMAIN LastWritten.results \subseteq DOMAIN file'.results]_vars

C19_Witness ==
    /\ pc = "as_completed"
    /\ save_results
    /\ Cardinality(DOMAIN file.results) = 1
    /\ \E i \in image_files : status[i] = "running"

\* C20: whenever the public snapshot is a completely written file (after
\* the initial, an intermediate, the final-statistics or a post-pass write),
\* its total_images equals the number of images of the run.
C20_TotalImagesConstant ==
    file.state = "complete" => file.total_images = Cardinality(image_files)

C20_Witness ==
    /\ file.state = "complete"
    /\ file.total_images = 2
    /\ Cardinality(DOMAIN file.results) = 1
    /\ \E i \in image_files : status[i] \in {"running", "queued"}

\* the main thread is inside a write-temporary-then-replace sequence
\* (lines 200-212 or 251-261)
Writing == pc \in {"write_tmp", "replace", "post_write_tmp", "post_replace"}
TmpWritten == pc \in {"replace", "post_replace"}

\* C21: in every intermediate and post-pass snapshot write, between the write
\* of the temporary file and os.replace the public file is a complete,
\* parseable snapshot, and from the beginning of the write sequence on the
\* public file changes only by the replace itself: a crash before the
\* replace leaves the content it had before the write began.
C21_CrashBeforeReplaceKeepsFile ==
    /\ [](TmpWritten => (file.state = "complete" /\ tmp.state = "complete"))
    /\ [][(Writing /\ file' # file) => (TmpWritten /\ file' = tmp)]_vars

C21_Witness ==
    /\ pc = "post_replace"
    /\ file.state = "complete"
    /\ file.final
    /\ tmp.state = "complete"
    /\ tmp.results # file.results

\* C22: snapshot writes are serialized with the updates of the result
\* mapping: the mapping changes only in a step of the main thread, outside any
\* write sequence, and never in a step of a pool worker; the temporary file
\* changes only in a step of the one write sequence in progress.
C22_WritesSerialized ==
    [][/\ (results' # results =>
              /\ pc \in {"as_completed", "post_run"}
              /\ ~Writing
              /\ lpc' = lpc
              /\ calls' = calls
              /\ fut' = fut)
       /\ (tmp' # tmp => (Writing /\ pc' # pc /\ results' = results /\ lpc' = lpc))]_vars

C22_Witness ==
    /\ pc = "write_tmp"
    /\ Cardinality(DOMAIN results) = 1
    /\ \E i \in image_files : status[i] = "done"
    /\ \E i \in image_files : status[i] = "consumed"

\* C23: the post-pass begins only when every submitted image has completed
\* and been consumed (the pool is idle and shut down), and it runs the failed
\* images one at a time: while the main thread is past the pool, at most one
\* image is inside analyze_local_image and it is the one being retried.
PastPool ==
    pc \in {"final_stats", "final_truncate", "filter", "post", "post_run",
            "post_write_tmp", "post_replace", "returned"}
Active == { i \in Files : lpc[i] # "idle" }

C23_PostPassSequential ==
    PastPool =>
        /\ \A i \in image_files : status[i] \in {"consumed", "retrying", "retried", "final"}
        /\ Cardinality(Active) <= 1
        /\ \A i \in Active : pc = "post_run" /\ status[i] = "retrying"
        /\ Cardinality({ i \in Files : status[i] \in {"retrying", "retried"} }) <= 1

C23_Witness ==
    /\ pc = "post_run"
    /\ \E i, j \in failed_images :
          /\ status[i] = "final"
          /\ status[j] = "retrying"
          /\ lpc[j] = "calling"

\* C24: when the calls of analyze_local_image on one ImageAnalyzer do not
\* overlap, the start of every external call (the stamp of
\* self.last_request_time) is at least rate_limit after the start of the
\* previous one, retries included; n calls therefore take at least
\* (n - 1) * rate_limit.
C24_SequentialMinInterval == gap >= RateLimit

C24_Witness ==
    \E i \in image_files :
        /\ lpc[i] = "calling"
        /\ calls[i] = StopAfterAttempt + 1
        /\ errs[i] = StopAfterAttempt
        /\ time_since_last = 0
        /\ gap = RateLimit

\* C25: every external call of improve_text starts at least rate_limit
\* (3 seconds) after the start of the previous external call of the same
\* TextImprover, whichever of the 5 workers made it.
C25_TextMinInterval ==
    [][\A c \in Chunks :
          ((cstatus[c] = "queued" /\ cstatus'[c] = "running") \/ ctries'[c] > ctries[c])
              => text_since_last >= TextRateLimit]_vars

\* the calls one pass can make for one image: 3 loop attempts of
\* process_single_image, each with up to 3 attempts of the retry decorator
CallsPerPass == max_retries * StopAfterAttempt

\* C26: every run of analyze_folder ends, given that every external call
\* returns or raises: an image gets at most 3 * 3 external calls in the pool
\* pass and at most 3 * 3 more in the post-pass, and the run reaches its
\* return unless the folder check or a disk write raised.
C26_RunTerminates ==
    /\ <>(pc \in {"returned", "raised"})
    /\ [](\A i \in Files :
            /\ calls[i] <= 2 * CallsPerPass
            /\ (PoolPhase(i) => calls[i] <= CallsPerPass))
    /\ [](pc = "raised" => err \in {"ValueError", "OSError"})

C26_Witness ==
    /\ pc = "returned"
    /\ \E i \in image_files : calls[i] = 2 * CallsPerPass /\ errs[i] = calls[i]

\* C27: process_video terminates for every opened video: the frame loop
\* is eventually left, with frame_id >= frame_count or with maxframes frames
\* written, also when reading or writing a frame fails.
C27_ProcessVideoTerminates ==
    <>(/\ vpc = "released"
       /\ (frame_id >= frame_count \/ (maxframes # 0 /\ output_frame_count >= maxframes)))

====
